---- MODULE Spec2Model ----
(***************************************************************************)
(* Duck DNS updater: the update thread (address selection, provider call,  *)
(* response interpretation), the IP echo discovery, the configuration and  *)
(* history store, and the main window's triggers, timer and history.       *)
(*                                                                         *)
(* Text is a sequence of one-character strings; a literal that the code    *)
(* only ever prints (an f-string prefix, an exception's description) is    *)
(* kept as one element.  An optional value is <<>> for Python's None and   *)
(* <<v>> for the value v.                                                  *)
(***************************************************************************)
EXTENDS Integers, Sequences, FiniteSets, TLC

VARIABLES
    config,          \* MainWindow.config, the settings in memory
    config_file,     \* ~/.duckdns/config.json
    update_history,  \* MainWindow.update_history
    history_file,    \* ~/.duckdns/history.json
    timers,          \* every QTimer setup_timer has created
    update_timer,    \* MainWindow.update_timer: an index of timers, 0 while unset
    single_shot,     \* the start-up QTimer.singleShot is still to fire
    threads,         \* every UpdateThread update_dns has created, oldest first
    events,          \* update_complete signals queued for the main thread
    clock,           \* datetime.now()
    dialog,          \* the title of the message box a handler showed last
    crashed,         \* the process was aborted
    saves,           \* the configuration saves made
    history_saved,   \* what the last call of save_history returned
    config_saved     \* what the last call of ConfigManager.save_config returned

vars == <<config, config_file, update_history, history_file, timers,
          update_timer, single_shot, threads, events, clock, dialog, crashed,
          saves, history_saved, config_saved>>

(* ------------------------------- bounds ------------------------------- *)

\* update threads started in one run of the application
MaxThreads == 2

\* configuration saves in one run of the application
MaxSaves == 1

\* entries the history file may lack to the limit when the application starts
MaxBelowCap == 2

\* entries a list handed to save_history may have over the limit
MaxOverCap == 3

\* the longest of the short lists handed to save_history
MaxShort == 3

(* ------------------------- Python values and text --------------------- *)

None == <<>>

Some(v) == <<v>>

\* truthiness of an optional text: neither None nor the empty string
Truthy(o) == o # None /\ Len(o[1]) > 0

Whitespace == {" ", "\n", "\t", "\r"}

RECURSIVE lstrip(_)
lstrip(s) == IF s # <<>> /\ Head(s) \in Whitespace THEN lstrip(Tail(s)) ELSE s

RECURSIVE rstrip(_)
rstrip(s) ==
    IF s # <<>> /\ s[Len(s)] \in Whitespace
    THEN rstrip(SubSeq(s, 1, Len(s) - 1))
    ELSE s

strip(s) == rstrip(lstrip(s))

\* str.split(sep) for a one-character separator: never an empty list
RECURSIVE split(_, _)
split(s, sep) ==
    IF \A i \in 1..Len(s) : s[i] # sep
    THEN <<s>>
    ELSE LET i == CHOOSE k \in 1..Len(s) :
                      s[k] = sep /\ \A j \in 1..(k - 1) : s[j] # sep
         IN  <<SubSeq(s, 1, i - 1)>> \o split(SubSeq(s, i + 1, Len(s)), sep)

Digits == <<"0", "1", "2", "3", "4", "5", "6", "7", "8", "9">>

\* str(n) of a non-negative integer, as an f-string formats it
RECURSIVE str(_)
str(n) == IF n < 10 THEN <<Digits[n + 1]>> ELSE str(n \div 10) \o <<Digits[(n % 10) + 1]>>

\* dict.get(key, default)
Get(d, key, default) == IF key \in DOMAIN d THEN d[key] ELSE default

\* d[key] = value on a copy of d
Put(d, key, value) == [k \in DOMAIN d \cup {key} |-> IF k = key THEN value ELSE d[k]]

(* ------------------------------ the network --------------------------- *)

\* what one requests.get ends in: an exception, or a response
Fault(description) == [exc |-> Some(description), status_code |-> 0, text |-> <<>>]

Response(status, body) == [exc |-> None, status_code |-> status, text |-> body]

IP4 == <<"1", ".", "2">>


\* an address the user typed into the custom IPv4 field
CUSTOM4 == <<"9", ".", "9">>
IP6 == <<":", ":", "1">>

OK == <<"O", "K">>

NOCHANGE == <<"N", "O", "C", "H", "A", "N", "G", "E">>

UPDATED == <<"U", "P", "D", "A", "T", "E", "D">>

\* what an echo service may do with one request
EchoOutcomes ==
    { Fault(<<"ConnectTimeout">>),
      Response(503, <<"b", "u", "s", "y">>),
      Response(200, <<>>),
      Response(200, IP4 \o <<"\n">>) }

\* what the provider may do with one update request
ProviderOutcomes ==
    { Fault(<<"ReadTimeout">>),
      Response(500, <<"K", "O">>),
      Response(404, OK),
      Response(200, OK),
      Response(200, <<"K", "O">>),
      Response(200, <<>>),
      Response(200, <<"b", "a", "d", "\n">> \o OK),
      Response(200, OK \o <<"\r", "\n">> \o IP4),
      Response(200, OK \o <<"\n">> \o IP4 \o <<"\n", "\n">> \o UPDATED),
      Response(200, OK \o <<"\n">> \o NOCHANGE \o <<"\n">> \o NOCHANGE),
      Response(200, <<" ">> \o OK \o <<"\n">> \o IP4 \o <<"\n">> \o IP6
                        \o <<"\n">> \o NOCHANGE \o <<"\n">>) }

(* ------------------------------ ip_utils ------------------------------ *)

IPV4_SERVICES == <<"https://api.ipify.org", "https://ipv4.icanhazip.com",
                   "https://v4.ident.me">>

IPV6_SERVICES == <<"https://api6.ipify.org", "https://ipv6.icanhazip.com",
                   "https://v6.ident.me">>

\* the loop over the services from the i-th on; echo[i] is what the i-th
\* service does.  ip is the value returned, queried the requests made.
RECURSIVE get_ip(_, _, _)
get_ip(services, echo, i) ==
    IF i > Len(services)
    THEN [ip |-> None, queried |-> i - 1]
    ELSE IF echo[i].exc = None /\ echo[i].status_code = 200
         THEN [ip |-> Some(strip(echo[i].text)), queried |-> i]
         ELSE get_ip(services, echo, i + 1)

get_ipv4(echo) == get_ip(IPV4_SERVICES, echo, 1)

get_ipv6(echo) == get_ip(IPV6_SERVICES, echo, 1)

(* ---------------------------- UpdateThread ----------------------------- *)

\* UpdateThread(domains, token, update_ipv4, update_ipv6, ipv4, ipv6), not
\* yet run.  The fields below ipv6 record what run() did: the responses it
\* received, the request it sent, the signals it emitted; callbacks counts
\* the calls of on_update_complete its signal led to, saves_before_start
\* and saves_before_run the configuration saves made before the thread
\* was started and before it ran.
UpdateThread(domains, token, update_ipv4, update_ipv6, ipv4, ipv6) ==
    [domains |-> domains, token |-> token,
     update_ipv4 |-> update_ipv4, update_ipv6 |-> update_ipv6,
     ipv4 |-> ipv4, ipv6 |-> ipv6,
     state |-> "running", echo |-> None, provider |-> None,
     unexpected |-> None, params |-> None, ipv4_queries |-> 0,
     ipv6_queries |-> 0, emitted |-> <<>>, escaped |-> FALSE,
     callbacks |-> 0, saves_before_start |-> 0, saves_before_run |-> 0]

\* the update result dict
UpdateResult(success, message, ipv4, ipv6, now) ==
    [success |-> success, message |-> message, ipv4 |-> ipv4, ipv6 |-> ipv6,
     timestamp |-> now]

\* ipv4_param without the test of update_ipv4
ipv4_param_ignoring_flag(self, echo) ==
    IF Truthy(self.ipv4)
    THEN [ip |-> self.ipv4, queried |-> 0]
    ELSE LET detected_ipv4 == get_ipv4(echo.v4)
         IN  [ip |-> IF Truthy(detected_ipv4.ip) THEN detected_ipv4.ip ELSE None,
              queried |-> detected_ipv4.queried]

\* ipv4_param asking the echo services before looking at the override
ipv4_param_discovery_first(self, echo) ==
    IF self.update_ipv4
    THEN LET detected_ipv4 == get_ipv4(echo.v4)
         IN  [ip |-> IF Truthy(detected_ipv4.ip) THEN detected_ipv4.ip
                     ELSE IF Truthy(self.ipv4) THEN self.ipv4 ELSE None,
              queried |-> detected_ipv4.queried]
    ELSE [ip |-> None, queried |-> 0]

\* "Handle IP settings", IPv4: the value of params['ip'] (None: no such
\* key) and the echo requests made for it.  echo.v4 and echo.v6 are what the
\* IPv4 and IPv6 echo services would do.
ipv4_param(self, echo) ==
    IF self.update_ipv4
    THEN IF Truthy(self.ipv4)
         THEN [ip |-> self.ipv4, queried |-> 0]
         ELSE LET detected_ipv4 == get_ipv4(echo.v4)
              IN  [ip |-> IF Truthy(detected_ipv4.ip) THEN detected_ipv4.ip ELSE None,
                   queried |-> detected_ipv4.queried]
    ELSE [ip |-> None, queried |-> 0]

\* ipv6_param falling back on discovery, as ipv4_param does
ipv6_param_with_discovery(self, echo) ==
    IF self.update_ipv6
    THEN IF Truthy(self.ipv6)
         THEN [ip |-> self.ipv6, queried |-> 0]
         ELSE LET detected_ipv6 == get_ipv6(echo.v6)
              IN  [ip |-> IF Truthy(detected_ipv6.ip) THEN detected_ipv6.ip ELSE None,
                   queried |-> detected_ipv6.queried]
    ELSE [ip |-> None, queried |-> 0]

\* "Handle IP settings", IPv6: the value of params['ipv6'] and the echo
\* requests made for it
ipv6_param(self, echo) ==
    [ip |-> IF self.update_ipv6 /\ Truthy(self.ipv6) THEN self.ipv6 ELSE None,
     queried |-> 0]

\* the query parameters of the provider request
request_params(self, echo) ==
    LET base == [k \in {"domains", "token", "verbose"} |->
                    CASE k = "domains" -> self.domains
                      [] k = "token" -> self.token
                      [] OTHER -> <<"true">>]
        ip == ipv4_param(self, echo).ip
        with_ip == IF ip # None THEN Put(base, "ip", ip[1]) ELSE base
        ip6 == ipv6_param(self, echo).ip
    IN  IF ip6 # None THEN Put(with_ip, "ipv6", ip6[1]) ELSE with_ip

\* interpret_response taking every response for a success
interpret_response_first_line_unchecked(response, now) ==
    IF response.exc # None
    THEN UpdateResult(FALSE, <<"Network error: ">> \o response.exc[1], None, None, now)
    ELSE LET lines == split(strip(response.text), "\n")
         IN  UpdateResult(TRUE, <<"Update successful: ">> \o UPDATED,
                          IF Len(lines) > 1 /\ lines[2] # <<>> /\ lines[2] # NOCHANGE
                          THEN Some(lines[2]) ELSE None,
                          None, now)

\* interpret_response reporting the second and third line whatever they hold
interpret_response_lines_unfiltered(response, now) ==
    IF response.exc # None
    THEN UpdateResult(FALSE, <<"Network error: ">> \o response.exc[1], None, None, now)
    ELSE IF response.status_code = 200
    THEN LET lines == split(strip(response.text), "\n")
         IN  IF lines[1] = OK
             THEN UpdateResult(TRUE, <<"Update successful: ">> \o
                                     (IF Len(lines) > 3 THEN lines[4] ELSE UPDATED),
                               IF Len(lines) > 1 THEN Some(lines[2]) ELSE None,
                               IF Len(lines) > 2 THEN Some(lines[3]) ELSE None, now)
             ELSE UpdateResult(FALSE, <<"Update failed: Invalid response">>,
                               None, None, now)
    ELSE UpdateResult(FALSE, <<"Update failed: HTTP ">> \o str(response.status_code),
                      None, None, now)

\* interpret_response whose failures carry the body as an address and whose
\* network error does not say what went wrong
interpret_response_failures_with_address(response, now) ==
    IF response.exc # None
    THEN UpdateResult(FALSE, <<"Network error: ">>, None, None, now)
    ELSE IF response.status_code = 200
    THEN LET lines == split(strip(response.text), "\n")
         IN  IF lines[1] = OK
             THEN LET ipv4 == IF Len(lines) > 1 /\ lines[2] # <<>> /\ lines[2] # NOCHANGE
                              THEN Some(lines[2]) ELSE None
                      ipv6 == IF Len(lines) > 2 /\ lines[3] # <<>> /\ lines[3] # NOCHANGE
                              THEN Some(lines[3]) ELSE None
                      update_status == IF Len(lines) > 3 THEN lines[4] ELSE UPDATED
                  IN  UpdateResult(TRUE, <<"Update successful: ">> \o update_status,
                                   ipv4, ipv6, now)
             ELSE UpdateResult(FALSE, <<"Update failed: Invalid response">>,
                               Some(lines[1]), None, now)
    ELSE UpdateResult(FALSE, <<"Update failed: HTTP ">> \o str(response.status_code),
                      Some(response.text), None, now)

\* the try block around requests.get: the result for what the provider did
interpret_response(response, now) ==
    IF response.exc # None
    THEN UpdateResult(FALSE, <<"Network error: ">> \o response.exc[1], None, None, now)
    ELSE IF response.status_code = 200
    THEN LET lines == split(strip(response.text), "\n")
         IN  IF lines[1] = OK
             THEN LET ipv4 == IF Len(lines) > 1 /\ lines[2] # <<>> /\ lines[2] # NOCHANGE
                              THEN Some(lines[2]) ELSE None
                      ipv6 == IF Len(lines) > 2 /\ lines[3] # <<>> /\ lines[3] # NOCHANGE
                              THEN Some(lines[3]) ELSE None
                      update_status == IF Len(lines) > 3 THEN lines[4] ELSE UPDATED
                  IN  UpdateResult(TRUE, <<"Update successful: ">> \o update_status,
                                   ipv4, ipv6, now)
             ELSE UpdateResult(FALSE, <<"Update failed: Invalid response">>,
                               None, None, now)
    ELSE UpdateResult(FALSE, <<"Update failed: HTTP ">> \o str(response.status_code),
                      None, None, now)

\* update_duckdns giving up, without a request, when it is to update IPv4
\* and has no address to send
update_duckdns_giving_up_without_address(self, echo, provider, now) ==
    IF self.update_ipv4 /\ ipv4_param(self, echo).ip = None
    THEN [params |-> None,
          ipv4_queries |-> ipv4_param(self, echo).queried,
          ipv6_queries |-> 0,
          result |-> UpdateResult(FALSE, <<"Update failed: no address">>,
                                  None, None, now)]
    ELSE [params |-> Some(request_params(self, echo)),
          ipv4_queries |-> ipv4_param(self, echo).queried,
          ipv6_queries |-> ipv6_param(self, echo).queried,
          result |-> interpret_response(provider, now)]

\* update_duckdns() when nothing unexpected is raised: what it sent and
\* what it returns
update_duckdns(self, echo, provider, now) ==
    [params |-> Some(request_params(self, echo)),
     ipv4_queries |-> ipv4_param(self, echo).queried,
     ipv6_queries |-> ipv6_param(self, echo).queried,
     result |-> interpret_response(provider, now)]

\* run() without its except clause
run_unguarded(self, echo, provider, unexpected, now) ==
    IF unexpected # None
    THEN [params |-> None, ipv4_queries |-> 0, ipv6_queries |-> 0,
          emitted |-> <<>>, escaped |-> TRUE]
    ELSE LET done == update_duckdns(self, echo, provider, now)
         IN  [params |-> done.params, ipv4_queries |-> done.ipv4_queries,
              ipv6_queries |-> done.ipv6_queries,
              emitted |-> <<done.result>>, escaped |-> FALSE]

\* run(): unexpected is the exception (None: none) that update_duckdns
\* raises outside its own try block, before the provider is called
run(self, echo, provider, unexpected, now) ==
    IF unexpected # None
    THEN [params |-> None, ipv4_queries |-> 0, ipv6_queries |-> 0,
          emitted |-> <<UpdateResult(FALSE, <<"Update failed: ">> \o unexpected[1],
                                     None, None, now)>>,
          escaped |-> FALSE]
    ELSE LET done == update_duckdns(self, echo, provider, now)
         IN  [params |-> done.params, ipv4_queries |-> done.ipv4_queries,
              ipv6_queries |-> done.ipv6_queries,
              emitted |-> <<done.result>>, escaped |-> FALSE]

(* ---------------------------- ConfigManager ---------------------------- *)

HISTORY_LIMIT == 1000

\* a file: whether it exists, whether json.load accepts it, what it holds
NoFile(nothing) == [exists |-> FALSE, parsable |-> FALSE, data |-> nothing]

\* open(path, 'w') and json.dump(data, f): io is "ok", "open_fails" (the
\* file is left as it was) or "dump_fails" (the file is left truncated and
\* holds no JSON document)
WriteJson(file, data, io) ==
    CASE io = "ok" -> [exists |-> TRUE, parsable |-> TRUE, data |-> data]
      [] io = "open_fails" -> file
      [] OTHER -> [exists |-> TRUE, parsable |-> FALSE, data |-> <<>>]

IoOutcomes == {"ok", "open_fails", "dump_fails"}

get_default_config ==
    [domains |-> <<>>, token |-> <<>>, update_ipv4 |-> TRUE,
     use_custom_ipv4 |-> FALSE, custom_ipv4 |-> <<>>, update_ipv6 |-> FALSE,
     custom_ipv6 |-> <<>>, auto_update |-> FALSE, update_interval |-> 30,
     minimize_to_tray |-> TRUE, start_minimized |-> FALSE]

\* load_config without its except branch settling for the defaults: what
\* the file holds is returned whenever the file exists
load_config_without_except(file) ==
    IF file.exists THEN file.data ELSE get_default_config

load_config(file) ==
    IF file.exists
    THEN IF file.parsable THEN file.data ELSE get_default_config
    ELSE get_default_config

\* ConfigManager.save_config: the file afterwards and the value returned
ConfigManager_save_config(cfg, file, io) ==
    [file |-> WriteJson(file, cfg, io), ok |-> io = "ok"]

load_history(file) ==
    IF file.exists
    THEN IF file.parsable THEN file.data ELSE <<>>
    ELSE <<>>

\* save_history keeping the first entries instead of the last
save_history_keeping_oldest(history, file, io) ==
    LET kept == IF Len(history) > HISTORY_LIMIT
                THEN SubSeq(history, 1, HISTORY_LIMIT)
                ELSE history
    IN  [file |-> WriteJson(file, kept, io), ok |-> io = "ok"]

\* ConfigManager.save_history: the file afterwards and the value returned.
\* history[-1000:] is bound to the local name only: the caller's list is
\* left as it is.
save_history(history, file, io) ==
    LET kept == IF Len(history) > HISTORY_LIMIT
                THEN SubSeq(history, Len(history) - HISTORY_LIMIT + 1, Len(history))
                ELSE history
    IN  [file |-> WriteJson(file, kept, io), ok |-> io = "ok"]

(* ------------------------------ MainWindow ----------------------------- *)

\* setup_timer without the stop of the timer in use
setup_timer_without_stop(cfg, tm, ut) ==
    IF Get(cfg, "auto_update", FALSE)
    THEN [timers |-> Append(tm, [active |-> TRUE,
                                 interval |-> Get(cfg, "update_interval", 30) * 60 * 1000]),
          update_timer |-> Len(tm) + 1]
    ELSE [timers |-> tm, update_timer |-> ut]

\* setup_timer: the timers and self.update_timer afterwards
setup_timer(cfg, tm, ut) ==
    LET stopped == IF ut # 0 THEN [tm EXCEPT ![ut].active = FALSE] ELSE tm
    IN  IF Get(cfg, "auto_update", FALSE)
        THEN [timers |-> Append(stopped,
                                [active |-> TRUE,
                                 interval |-> Get(cfg, "update_interval", 30) * 60 * 1000]),
              update_timer |-> Len(stopped) + 1]
        ELSE [timers |-> stopped, update_timer |-> ut]

\* the configuration tab's widgets as the user may leave them
Forms ==
    { [domains |-> <<" ", "d", " ">>, token |-> <<"t">>, update_ipv4 |-> TRUE,
       use_custom_ipv4 |-> TRUE, custom_ipv4 |-> CUSTOM4 \o <<" ">>, update_ipv6 |-> TRUE,
       custom_ipv6 |-> IP6, auto_update |-> TRUE, update_interval |-> 1440,
       minimize_to_tray |-> FALSE, start_minimized |-> TRUE],
      [domains |-> <<"d">>, token |-> <<" ">>, update_ipv4 |-> FALSE,
       use_custom_ipv4 |-> TRUE, custom_ipv4 |-> CUSTOM4, update_ipv6 |-> TRUE,
       custom_ipv6 |-> <<>>, auto_update |-> FALSE, update_interval |-> 5,
       minimize_to_tray |-> TRUE, start_minimized |-> FALSE] }

\* the dict save_config builds from the widgets
new_config(form) ==
    [domains |-> strip(form.domains),
     token |-> strip(form.token),
     update_ipv4 |-> form.update_ipv4,
     use_custom_ipv4 |-> form.use_custom_ipv4,
     custom_ipv4 |-> strip(form.custom_ipv4),
     update_ipv6 |-> form.update_ipv6,
     custom_ipv6 |-> strip(form.custom_ipv6),
     auto_update |-> form.auto_update,
     update_interval |-> form.update_interval,
     minimize_to_tray |-> form.minimize_to_tray,
     start_minimized |-> form.start_minimized]

\* save_config: the Save button of the configuration tab
save_config(form, io) ==
    /\ ~crashed
    /\ saves < MaxSaves
    /\ LET new == new_config(form)
           timer == setup_timer(new, timers, update_timer)
       IN  /\ config' = new
           /\ config_file' = ConfigManager_save_config(new, config_file, io).file
           /\ timers' = timer.timers
           /\ update_timer' = timer.update_timer
    /\ dialog' = "Configuration Saved"
    /\ saves' = saves + 1
    /\ config_saved' = ConfigManager_save_config(new_config(form), config_file, io).ok
    /\ UNCHANGED <<update_history, history_file, single_shot, threads, events,
                   clock, crashed, history_saved>>

\* self.update_thread.start(): the thread as it is once started
start(thread) == [thread EXCEPT !.saves_before_start = saves]

\* update_dns without the check of domains and token
update_dns_without_check ==
    LET domains == Get(config, "domains", <<>>)
        token == Get(config, "token", <<>>)
        update_ipv4 == Get(config, "update_ipv4", TRUE)
        use_custom_ipv4 == Get(config, "use_custom_ipv4", FALSE)
        custom_ipv4 == Get(config, "custom_ipv4", <<>>)
        update_ipv6 == Get(config, "update_ipv6", FALSE)
        custom_ipv6 == Get(config, "custom_ipv6", <<>>)
        ipv4 == IF use_custom_ipv4 /\ custom_ipv4 # <<>> THEN Some(custom_ipv4) ELSE None
        ipv6 == IF update_ipv6 /\ custom_ipv6 # <<>> THEN Some(custom_ipv6) ELSE None
    IN  /\ Len(threads) < MaxThreads
        /\ threads' = Append(threads,
                             start(UpdateThread(domains, token, update_ipv4,
                                                update_ipv6, ipv4, ipv6)))
        /\ dialog' = "Update Started"
        /\ crashed' \in IF threads # <<>> /\ threads[Len(threads)].state = "running"
                        THEN BOOLEAN
                        ELSE {FALSE}

\* update_dns passing on every stored custom IPv4 address, whatever
\* use_custom_ipv4 says
update_dns_ignoring_use_custom ==
    LET domains == Get(config, "domains", <<>>)
        token == Get(config, "token", <<>>)
        update_ipv4 == Get(config, "update_ipv4", TRUE)
        use_custom_ipv4 == Get(config, "use_custom_ipv4", FALSE)
        custom_ipv4 == Get(config, "custom_ipv4", <<>>)
        update_ipv6 == Get(config, "update_ipv6", FALSE)
        custom_ipv6 == Get(config, "custom_ipv6", <<>>)
        ipv4 == IF custom_ipv4 # <<>> THEN Some(custom_ipv4) ELSE None
        ipv6 == IF update_ipv6 /\ custom_ipv6 # <<>> THEN Some(custom_ipv6) ELSE None
    IN  IF domains = <<>> \/ token = <<>>
        THEN /\ dialog' = "Configuration Missing"
             /\ UNCHANGED <<threads, crashed>>
        ELSE /\ Len(threads) < MaxThreads
             /\ threads' = Append(threads,
                                  start(UpdateThread(domains, token, update_ipv4,
                                                     update_ipv6, ipv4, ipv6)))
             /\ dialog' = "Update Started"
             /\ crashed' \in IF threads # <<>> /\ threads[Len(threads)].state = "running"
                             THEN BOOLEAN
                             ELSE {FALSE}

\* update_dns, the slot of every trigger.  The new thread replaces
\* self.update_thread: a thread still running then loses its last
\* reference, and Qt either lets it run on or aborts the process.
update_dns ==
    LET domains == Get(config, "domains", <<>>)
        token == Get(config, "token", <<>>)
        update_ipv4 == Get(config, "update_ipv4", TRUE)
        use_custom_ipv4 == Get(config, "use_custom_ipv4", FALSE)
        custom_ipv4 == Get(config, "custom_ipv4", <<>>)
        update_ipv6 == Get(config, "update_ipv6", FALSE)
        custom_ipv6 == Get(config, "custom_ipv6", <<>>)
        ipv4 == IF use_custom_ipv4 /\ custom_ipv4 # <<>> THEN Some(custom_ipv4) ELSE None
        ipv6 == IF update_ipv6 /\ custom_ipv6 # <<>> THEN Some(custom_ipv6) ELSE None
    IN  IF domains = <<>> \/ token = <<>>
        THEN /\ dialog' = "Configuration Missing"
             /\ UNCHANGED <<threads, crashed>>
        ELSE /\ Len(threads) < MaxThreads
             /\ threads' = Append(threads,
                                  start(UpdateThread(domains, token, update_ipv4,
                                                     update_ipv6, ipv4, ipv6)))
             /\ dialog' = "Update Started"
             /\ crashed' \in IF threads # <<>> /\ threads[Len(threads)].state = "running"
                             THEN BOOLEAN
                             ELSE {FALSE}

\* the Update Now button of the main window
UpdateNowButton ==
    /\ ~crashed
    /\ update_dns
    /\ UNCHANGED <<config, config_file, update_history, history_file, timers,
                   update_timer, single_shot, events, clock, saves,
                   history_saved, config_saved>>

\* Update Now in the tray menu
TrayUpdateNow ==
    /\ ~crashed
    /\ update_dns
    /\ UNCHANGED <<config, config_file, update_history, history_file, timers,
                   update_timer, single_shot, events, clock, saves,
                   history_saved, config_saved>>

\* timeout of a running timer
TimerTimeout ==
    /\ ~crashed
    /\ \E i \in 1..Len(timers) : timers[i].active
    /\ update_dns
    /\ UNCHANGED <<config, config_file, update_history, history_file, timers,
                   update_timer, single_shot, events, clock, saves,
                   history_saved, config_saved>>

\* the QTimer.singleShot(1000, self.update_dns) of __init__
StartupSingleShot ==
    /\ ~crashed
    /\ single_shot
    /\ single_shot' = FALSE
    /\ update_dns
    /\ UNCHANGED <<config, config_file, update_history, history_file, timers,
                   update_timer, events, clock, saves,
                   history_saved, config_saved>>

\* UpdateThread.run reading the settings as they are when it runs, not the
\* values the thread was constructed with
UpdateThreadRun_reading_settings(t, inputs) ==
    /\ ~crashed
    /\ threads[t].state = "running"
    /\ \E in \in inputs :
          LET current == [threads[t] EXCEPT
                             !.domains = Get(config, "domains", <<>>),
                             !.token = Get(config, "token", <<>>),
                             !.update_ipv4 = Get(config, "update_ipv4", TRUE),
                             !.update_ipv6 = Get(config, "update_ipv6", FALSE),
                             !.ipv4 = IF Get(config, "use_custom_ipv4", FALSE)
                                         /\ Get(config, "custom_ipv4", <<>>) # <<>>
                                      THEN Some(config.custom_ipv4) ELSE None,
                             !.ipv6 = IF Get(config, "update_ipv6", FALSE)
                                         /\ Get(config, "custom_ipv6", <<>>) # <<>>
                                      THEN Some(config.custom_ipv6) ELSE None]
              ran == run(current, in.echo, in.provider, in.unexpected, clock)
          IN  /\ threads' = [threads EXCEPT ![t] =
                    [@ EXCEPT !.state = "finished",
                              !.echo = Some(in.echo),
                              !.provider = Some(in.provider),
                              !.unexpected = in.unexpected,
                              !.params = ran.params,
                              !.ipv4_queries = ran.ipv4_queries,
                              !.ipv6_queries = ran.ipv6_queries,
                              !.emitted = ran.emitted,
                              !.escaped = ran.escaped,
                              !.saves_before_run = saves]]
              /\ events' = events \o [i \in 1..Len(ran.emitted) |->
                                          [thread |-> t, result |-> ran.emitted[i]]]
    /\ clock' = clock + 1
    /\ UNCHANGED <<config, config_file, update_history, history_file, timers,
                   update_timer, single_shot, dialog, crashed, saves,
                   history_saved, config_saved>>

\* UpdateThread.run of thread t in its own thread; the signal it emits is
\* queued for the main thread, where the receiver lives
UpdateThreadRun(t, inputs) ==
    /\ ~crashed
    /\ threads[t].state = "running"
    /\ \E in \in inputs :
          LET ran == run(threads[t], in.echo, in.provider, in.unexpected, clock)
          IN  /\ threads' = [threads EXCEPT ![t] =
                    [@ EXCEPT !.state = "finished",
                              !.echo = Some(in.echo),
                              !.provider = Some(in.provider),
                              !.unexpected = in.unexpected,
                              !.params = ran.params,
                              !.ipv4_queries = ran.ipv4_queries,
                              !.ipv6_queries = ran.ipv6_queries,
                              !.emitted = ran.emitted,
                              !.escaped = ran.escaped,
                              !.saves_before_run = saves]]
              /\ events' = events \o [i \in 1..Len(ran.emitted) |->
                                          [thread |-> t, result |-> ran.emitted[i]]]
    /\ clock' = clock + 1
    /\ UNCHANGED <<config, config_file, update_history, history_file, timers,
                   update_timer, single_shot, dialog, crashed, saves,
                   history_saved, config_saved>>

\* on_update_complete dropping the earlier entries
on_update_complete_overwriting(result, io) ==
    /\ update_history' = <<result>>
    /\ history_file' = save_history(update_history', history_file, io).file
    /\ history_saved' = save_history(update_history', history_file, io).ok

\* on_update_complete(result): append, then save
on_update_complete(result, io) ==
    /\ update_history' = Append(update_history, result)
    /\ history_file' = save_history(update_history', history_file, io).file
    /\ history_saved' = save_history(update_history', history_file, io).ok

\* the main thread's event loop delivers the oldest queued signal; ios is
\* what the disk may do with the write
DeliverUpdateComplete(ios) ==
    /\ ~crashed
    /\ events # <<>>
    /\ \E io \in ios : on_update_complete(Head(events).result, io)
    /\ events' = Tail(events)
    /\ threads' = [threads EXCEPT ![Head(events).thread].callbacks = @ + 1]
    /\ UNCHANGED <<config, config_file, timers, update_timer, single_shot,
                   clock, dialog, crashed, saves, config_saved>>

\* clear_history emptying the list in memory and leaving the file alone
clear_history_memory_only(reply, io) ==
    /\ ~crashed
    /\ IF reply = "Yes"
       THEN /\ update_history' = <<>>
            /\ UNCHANGED <<history_file, history_saved>>
       ELSE UNCHANGED <<update_history, history_file, history_saved>>
    /\ dialog' = "Clear History"
    /\ UNCHANGED <<config, config_file, timers, update_timer, single_shot,
                   threads, events, clock, crashed, saves, config_saved>>

\* clear_history: the Clear History button and the answer to its question
clear_history(reply, io) ==
    /\ ~crashed
    /\ IF reply = "Yes"
       THEN /\ update_history' = <<>>
            /\ history_file' = save_history(update_history', history_file, io).file
            /\ history_saved' = save_history(update_history', history_file, io).ok
       ELSE UNCHANGED <<update_history, history_file, history_saved>>
    /\ dialog' = "Clear History"
    /\ UNCHANGED <<config, config_file, timers, update_timer, single_shot,
                   threads, events, clock, crashed, saves, config_saved>>

(* ---------------------------- specifications -------------------------- *)

\* a configuration file an earlier run of the application saved
StoredConfig ==
    [domains |-> <<"d">>, token |-> <<"t">>, update_ipv4 |-> TRUE,
     use_custom_ipv4 |-> FALSE, custom_ipv4 |-> CUSTOM4, update_ipv6 |-> FALSE,
     custom_ipv6 |-> IP6, auto_update |-> TRUE, update_interval |-> 30,
     minimize_to_tray |-> TRUE, start_minimized |-> FALSE]

\* the history file after n successful updates of an earlier run
StoredHistory(n) ==
    [i \in 1..n |-> UpdateResult(TRUE, <<"Update successful: ">> \o UPDATED,
                                 None, None, i)]

JsonFile(data) == [exists |-> TRUE, parsable |-> TRUE, data |-> data]

\* MainWindow.__init__ on the files cf and hf
MainWindow(cf, hf) ==
    /\ config_file = cf
    /\ config = load_config(cf)
    /\ history_file = hf
    /\ update_history = load_history(hf)
    /\ timers = setup_timer(load_config(cf), <<>>, 0).timers
    /\ update_timer = setup_timer(load_config(cf), <<>>, 0).update_timer
    /\ single_shot = Get(load_config(cf), "auto_update", FALSE)
    /\ threads = <<>>
    /\ events = <<>>
    /\ clock = Len(load_history(hf)) + 1
    /\ dialog = ""
    /\ crashed = FALSE
    /\ saves = 0
    /\ history_saved = FALSE
    /\ config_saved = FALSE

AllFail == [i \in 1..3 |-> Fault(<<"ConnectTimeout">>)]

\* what the network does during one run of an update thread
EngineInputs ==
    [echo : [v4 : [1..3 -> EchoOutcomes],
             v6 : {AllFail, [i \in 1..3 |-> Response(200, IP6)]}],
     provider : ProviderOutcomes,
     unexpected : {None, Some(<<"RuntimeError">>)}]

\* the same for the threads of the application: a successful update, and a
\* run that meets an unexpected exception
AppInputs ==
    { [echo |-> [v4 |-> [i \in 1..3 |-> Response(200, IP4 \o <<"\n">>)], v6 |-> AllFail],
       provider |-> Response(200, OK \o <<"\n">> \o IP4 \o <<"\n", "\n">> \o UPDATED),
       unexpected |-> None],
      [echo |-> [v4 |-> AllFail, v6 |-> AllFail],
       provider |-> Fault(<<"ReadTimeout">>),
       unexpected |-> Some(<<"RuntimeError">>)] }

\* the application: every trigger, the configuration saves, the threads and
\* the history, on a disk that takes every write of the history (SpecHistory
\* lets those writes fail)
Init ==
    \E cf \in {NoFile(<<>>), JsonFile(StoredConfig)},
       hf \in {NoFile(<<>>)} :
        MainWindow(cf, hf)

Next ==
    \/ \E form \in Forms, io \in IoOutcomes : save_config(form, io)
    \/ UpdateNowButton
    \/ TrayUpdateNow
    \/ TimerTimeout
    \/ StartupSingleShot
    \/ \E t \in 1..Len(threads) : UpdateThreadRun(t, AppInputs)
    \/ DeliverUpdateComplete({"ok"})
    \/ \E reply \in {"Yes", "No"} : clear_history(reply, "ok")

Spec == Init /\ [][Next]_vars

\* a started thread that has not finished can take its step
Runnable == ~crashed /\ \E t \in 1..Len(threads) : threads[t].state = "running"

\* the step of a thread that runs to its end
ThreadFinishes ==
    \E t \in 1..Len(threads) :
        threads[t].state = "running" /\ threads'[t].state = "finished"

\* the same with the scheduling the platform provides: the event loop of
\* the main thread gets to deliver a queued signal, and a started thread
\* gets to run (weak fairness of UpdateThreadRun, written with the
\* condition under which it is enabled)
SpecLive ==
    /\ Init
    /\ [][Next]_vars
    /\ WF_vars(DeliverUpdateComplete({"ok"}))
    /\ ([]<>(~Runnable) \/ []<><<ThreadFinishes>>_vars)

\* one update thread, constructed with any arguments, and run
InitEngine ==
    /\ config_file = NoFile(<<>>)
    /\ config = get_default_config
    /\ history_file = NoFile(<<>>)
    /\ update_history = <<>>
    /\ timers = <<>>
    /\ update_timer = 0
    /\ single_shot = FALSE
    /\ events = <<>>
    /\ clock = 1
    /\ dialog = ""
    /\ crashed = FALSE
    /\ saves = 0
    /\ history_saved = FALSE
    /\ config_saved = FALSE
    /\ \E update_ipv4 \in BOOLEAN, update_ipv6 \in BOOLEAN,
          ipv4 \in {None, Some(<<>>), Some(IP4)},
          ipv6 \in {None, Some(<<>>), Some(IP6)} :
         threads = <<UpdateThread(<<"d">>, <<"t">>, update_ipv4, update_ipv6,
                                  ipv4, ipv6)>>

NextEngine == \E t \in 1..Len(threads) : UpdateThreadRun(t, EngineInputs)

SpecEngine == InitEngine /\ [][NextEngine]_vars

\* the application started on a history file at or near the limit, its
\* configuration left alone, the disk free to fail
InitHistory ==
    \E n \in (HISTORY_LIMIT - MaxBelowCap)..HISTORY_LIMIT :
        MainWindow(JsonFile([StoredConfig EXCEPT !.auto_update = FALSE]),
                   JsonFile(StoredHistory(n)))

NextHistory ==
    \/ UpdateNowButton
    \/ \E t \in 1..Len(threads) : UpdateThreadRun(t, AppInputs)
    \/ DeliverUpdateComplete(IoOutcomes)
    \/ \E reply \in {"Yes", "No"}, io \in IoOutcomes : clear_history(reply, io)

SpecHistory == InitHistory /\ [][NextHistory]_vars

\* ConfigManager.save_history called on the list in update_history
SaveHistory(io) ==
    /\ history_file' = save_history(update_history, history_file, io).file
    /\ history_saved' = save_history(update_history, history_file, io).ok
    /\ saves' = saves + 1
    /\ saves = 0
    /\ UNCHANGED <<config, config_file, update_history, timers, update_timer,
                   single_shot, threads, events, clock, dialog, crashed,
                   config_saved>>

\* one call of save_history, on a list of any length up to MaxOverCap
\* entries over the limit and on any state of the file
InitStore ==
    /\ config_file = NoFile(<<>>)
    /\ config = get_default_config
    /\ timers = <<>>
    /\ update_timer = 0
    /\ single_shot = FALSE
    /\ threads = <<>>
    /\ events = <<>>
    /\ clock = 1
    /\ dialog = ""
    /\ crashed = FALSE
    /\ saves = 0
    /\ history_saved = FALSE
    /\ config_saved = FALSE
    /\ \E n \in (0..MaxShort) \cup
                ((HISTORY_LIMIT - MaxBelowCap)..(HISTORY_LIMIT + MaxOverCap)) :
          update_history = StoredHistory(n)
    /\ history_file \in {NoFile(<<>>), WriteJson(NoFile(<<>>), <<>>, "dump_fails"),
                         JsonFile(<<>>), JsonFile(StoredHistory(1)),
                         JsonFile(StoredHistory(HISTORY_LIMIT))}

NextStore == \E io \in IoOutcomes : SaveHistory(io)

SpecStore == InitStore /\ [][NextStore]_vars

(* ------------------------------ properties ---------------------------- *)

\* a configuration file that exists and holds no JSON document
Unparsable == [exists |-> TRUE, parsable |-> FALSE, data |-> <<>>]

\* the JSON object d without the fields of keys
Without(d, keys) == [k \in (DOMAIN d) \ keys |-> d[k]]

\* the configuration files start-up may find: none, a broken one, the one
\* an earlier run saved, and JSON objects that lack fields or hold an
\* update_interval the configuration tab would not have let through
ConfigFiles ==
    { NoFile(<<>>),
      Unparsable,
      JsonFile(StoredConfig),
      JsonFile(Without(StoredConfig, DOMAIN StoredConfig)),
      JsonFile(Without(StoredConfig, {"update_interval"})),
      JsonFile(Without(StoredConfig, {"auto_update", "custom_ipv4"})),
      JsonFile(Without(StoredConfig, {"domains", "token", "minimize_to_tray"})),
      JsonFile([StoredConfig EXCEPT !.use_custom_ipv4 = TRUE, !.custom_ipv4 = <<>>]),
      JsonFile([StoredConfig EXCEPT !.update_interval = 1]) }

\* start-up on each of these files, then configuration saves, every
\* trigger, and the threads the triggers start
InitSettings ==
    \E cf \in ConfigFiles : MainWindow(cf, NoFile(<<>>))

NextSettings ==
    \/ \E form \in Forms, io \in IoOutcomes : save_config(form, io)
    \/ UpdateNowButton
    \/ TrayUpdateNow
    \/ TimerTimeout
    \/ StartupSingleShot
    \/ \E t \in 1..Len(threads) : UpdateThreadRun(t, AppInputs)

SpecSettings == InitSettings /\ [][NextSettings]_vars

\* the threads whose run() has ended
Finished == {t \in 1..Len(threads) : threads[t].state = "finished"}

\* the threads that sent a request to the provider
Requested == {t \in Finished : threads[t].params # None}

\* part occurs in text
Embeds(text, part) ==
    \E i \in 1..(Len(text) - Len(part) + 1) :
        \A j \in 1..Len(part) : text[i + j - 1] = part[j]

\* the first line of the trimmed body of the response thread t received
FirstLine(t) == split(strip(threads[t].provider[1].text), "\n")[1]

\* thread t took a failure path: an unexpected exception, a network fault,
\* a status other than 200, or a body whose first line is not OK
FailurePath(t) ==
    \/ threads[t].unexpected # None
    \/ threads[t].provider[1].exc # None
    \/ threads[t].provider[1].status_code # 200
    \/ FirstLine(t) # OK

\* C1: whatever the echo services and the provider do, and whether or not
\* an unexpected exception is raised inside the attempt, run() ends without
\* an exception leaving it and with an update result emitted, and on every
\* failure path that result has success = false.
C1_NoFaultEscapes ==
    \A t \in Finished :
        /\ ~threads[t].escaped
        /\ Len(threads[t].emitted) >= 1
        /\ \E i \in 1..Len(events) :
              events[i].thread = t /\ events[i].result = threads[t].emitted[1]
        /\ FailurePath(t) =>
              \A i \in 1..Len(threads[t].emitted) : ~threads[t].emitted[i].success

\* a run in which an unexpected exception was raised and a failure result
\* was emitted all the same
C1_Witness ==
    \E t \in Finished :
        /\ threads[t].unexpected # None
        /\ threads[t].emitted # <<>>
        /\ ~threads[t].emitted[1].success

\* what save_history is to leave in the file for the list handed to it: the
\* last HISTORY_LIMIT entries in their order, or the whole list
Persisted(history) ==
    IF Len(history) > HISTORY_LIMIT
    THEN [i \in 1..HISTORY_LIMIT |-> history[Len(history) - HISTORY_LIMIT + i]]
    ELSE history

\* C2: after save_history has written the list handed to it (it returned
\* True), the history in the file is exactly the last 1000 entries of that
\* list in their original order when the list is longer than 1000, and the
\* whole list unchanged otherwise.
C2_SaveKeepsLast1000 ==
    (saves = 1 /\ history_saved) =>
        /\ history_file.exists
        /\ load_history(history_file) = Persisted(update_history)
        /\ Len(update_history) > HISTORY_LIMIT =>
              /\ Len(load_history(history_file)) = HISTORY_LIMIT
              /\ load_history(history_file)[HISTORY_LIMIT] =
                     update_history[Len(update_history)]

\* a list longer than the limit was saved
C2_Witness ==
    /\ saves = 1
    /\ history_saved
    /\ Len(update_history) > HISTORY_LIMIT
    /\ load_history(history_file) # update_history

\* C3: the history in memory and the history in the file never hold more
\* than 1000 entries.
C3_HistoryAtMostLimit ==
    /\ Len(update_history) <= HISTORY_LIMIT
    /\ Len(load_history(history_file)) <= HISTORY_LIMIT

\* the threads whose attempt has not yet delivered its result: still
\* running, or with a signal still queued
InFlight ==
    {t \in 1..Len(threads) :
        \/ threads[t].state = "running"
        \/ \E i \in 1..Len(events) : events[i].thread = t}

\* C4: at most one update attempt is in flight at any time.
C4_AtMostOneInFlight == Cardinality(InFlight) <= 1

\* how often x occurs in seq
Occurrences(seq, x) == Cardinality({i \in 1..Len(seq) : seq[i] = x})

\* a queued signal is delivered
Delivery == events # <<>> /\ events' = Tail(events)

\* C5: the results of attempts in flight together reach the history one
\* whole append-and-save at a time: each delivery appends exactly the
\* delivered result to the history as the deliveries before it left it and
\* saves that list, and no result is ever in the history, or on its way to
\* it, more than once.  No trigger is ever rejected as busy.
C5_AppendsSerialised ==
    /\ [](\A t \in Finished :
            \A k \in 1..Len(threads[t].emitted) :
                Occurrences(update_history, threads[t].emitted[k])
                  + Cardinality({i \in 1..Len(events) : events[i].thread = t}) <= 1)
    /\ [][Delivery =>
            /\ update_history' = Append(update_history, Head(events).result)
            /\ history_saved' => load_history(history_file') = Persisted(update_history')]_vars

\* two attempts overlapped (the thread created second emitted first) and the
\* history holds the results of both
C5_Witness ==
    /\ Len(threads) = 2
    /\ Finished = {1, 2}
    /\ events = <<>>
    /\ Len(update_history) = 2
    /\ update_history[1] = threads[2].emitted[1]
    /\ update_history[2] = threads[1].emitted[1]
    /\ load_history(history_file) = update_history

\* C6: when update_ipv4 is true, the request's `ip` is the override if that
\* is present and non-empty, and then no echo service is asked; otherwise
\* it is what discovery returned, if that is present and non-empty;
\* otherwise the request has no `ip`.
C6_Ipv4Selection ==
    \A t \in Requested :
        threads[t].update_ipv4 =>
            LET self == threads[t]
                params == self.params[1]
                discovered == get_ipv4(self.echo[1].v4).ip
            IN  IF Truthy(self.ipv4)
                THEN /\ "ip" \in DOMAIN params
                     /\ params["ip"] = self.ipv4[1]
                     /\ self.ipv4_queries = 0
                ELSE IF Truthy(discovered)
                THEN "ip" \in DOMAIN params /\ params["ip"] = discovered[1]
                ELSE "ip" \notin DOMAIN params

\* an override was sent although the echo services would have answered
C6_Witness ==
    \E t \in Requested :
        /\ threads[t].update_ipv4
        /\ Truthy(threads[t].ipv4)
        /\ Truthy(get_ipv4(threads[t].echo[1].v4).ip)
        /\ threads[t].params[1]["ip"] = threads[t].ipv4[1]

\* C7: when update_ipv4 is false the request has no `ip`, whatever the
\* override and whatever the echo services would answer, and no IPv4 echo
\* service is asked.
C7_NoIpv4WhenDisabled ==
    \A t \in Finished :
        ~threads[t].update_ipv4 =>
            /\ threads[t].ipv4_queries = 0
            /\ threads[t].params # None => "ip" \notin DOMAIN threads[t].params[1]

\* update_ipv4 was false while an override was given and the echo services
\* would have answered
C7_Witness ==
    \E t \in Requested :
        /\ ~threads[t].update_ipv4
        /\ Truthy(threads[t].ipv4)
        /\ Truthy(get_ipv4(threads[t].echo[1].v4).ip)
        /\ threads[t].update_ipv6
        /\ "ipv6" \in DOMAIN threads[t].params[1]

\* C8: the request has an `ipv6` exactly when update_ipv6 is true and the
\* IPv6 override is present and non-empty, its value is then the override,
\* and no IPv6 echo service is asked.
C8_Ipv6OnlyFromOverride ==
    \A t \in Finished :
        /\ threads[t].ipv6_queries = 0
        /\ threads[t].params # None =>
              LET params == threads[t].params[1]
              IN  /\ "ipv6" \in DOMAIN params <=>
                        (threads[t].update_ipv6 /\ Truthy(threads[t].ipv6))
                  /\ "ipv6" \in DOMAIN params => params["ipv6"] = threads[t].ipv6[1]

\* update_ipv6 was true without an override, the IPv6 echo services would
\* have answered, and the request went out without `ipv6`
C8_Witness ==
    \E t \in Requested :
        /\ threads[t].update_ipv6
        /\ threads[t].ipv6 = None
        /\ Truthy(get_ipv6(threads[t].echo[1].v6).ip)
        /\ "ipv6" \notin DOMAIN threads[t].params[1]

\* the timers that are running
ActiveTimers == {i \in 1..Len(timers) : timers[i].active}

\* C9: after a save, no timer but the one setup_timer has just started is
\* running; one is running exactly when the saved settings enable
\* auto_update, and its period is the saved update_interval (in minutes).
C9_SaveReschedules ==
    saves > 0 =>
        /\ Cardinality(ActiveTimers) <= 1
        /\ ActiveTimers # {} <=> Get(config, "auto_update", FALSE)
        /\ \A i \in ActiveTimers :
              /\ i = update_timer
              /\ timers[i].interval = Get(config, "update_interval", 30) * 60000

\* a save stopped the timer of the settings loaded at start-up and started
\* one with another period
C9_Witness ==
    /\ saves > 0
    /\ \E i \in 1..Len(timers) : ~timers[i].active
    /\ \E i \in ActiveTimers :
          /\ timers[i].interval = 1440 * 60000
          /\ timers[1].interval # timers[i].interval

\* C10: when the provider call returns a response, the result has success =
\* true exactly when the status is 200 and the first line of the trimmed
\* body is OK; on 200 with another first line the result is a failure with
\* the message "Invalid response", and on another status a failure whose
\* message embeds the status code.
C10_ResponseInterpretation ==
    \A t \in Requested :
        threads[t].provider[1].exc = None =>
            LET response == threads[t].provider[1]
                result == threads[t].emitted[1]
            IN  /\ result.success <=> (response.status_code = 200 /\ FirstLine(t) = OK)
                /\ (response.status_code = 200 /\ FirstLine(t) # OK) =>
                      /\ ~result.success
                      /\ result.message = <<"Update failed: Invalid response">>
                /\ response.status_code # 200 =>
                      /\ ~result.success
                      /\ Embeds(result.message, str(response.status_code))

\* a 200 response whose body holds OK, but not as its first line, was taken
\* for a failure
C10_Witness ==
    \E t \in Requested :
        /\ threads[t].provider[1].exc = None
        /\ threads[t].provider[1].status_code = 200
        /\ Embeds(threads[t].provider[1].text, OK)
        /\ FirstLine(t) # OK
        /\ ~threads[t].emitted[1].success

\* the lines of the trimmed body of the response thread t received
BodyLines(t) == split(strip(threads[t].provider[1].text), "\n")

\* the provider answered thread t with status 200 and a first line OK
Accepted(t) ==
    /\ threads[t].provider[1].exc = None
    /\ threads[t].provider[1].status_code = 200
    /\ FirstLine(t) = OK

\* the address a result reports for line n of the body: the line when it
\* exists and is neither empty nor NOCHANGE, otherwise nothing
ReportedLine(lines, n) ==
    IF n <= Len(lines) /\ lines[n] # <<>> /\ lines[n] # NOCHANGE
    THEN Some(lines[n]) ELSE None

\* C11: on a 200 response whose first line is OK, the result's ipv4 is the
\* second body line when that line exists and is neither empty nor NOCHANGE
\* and is absent otherwise, and its ipv6 is the third line under the same
\* rule: the body OK / address / empty / UPDATED gives that address and no
\* ipv6, and the body OK / NOCHANGE / NOCHANGE gives neither.
C11_ReportedAddresses ==
    \A t \in Requested :
        Accepted(t) =>
            LET result == threads[t].emitted[1]
                body == threads[t].provider[1].text
            IN  /\ result.ipv4 = ReportedLine(BodyLines(t), 2)
                /\ result.ipv6 = ReportedLine(BodyLines(t), 3)
                /\ body = OK \o <<"\n">> \o IP4 \o <<"\n", "\n">> \o UPDATED =>
                      result.ipv4 = Some(IP4) /\ result.ipv6 = None
                /\ body = OK \o <<"\n">> \o NOCHANGE \o <<"\n">> \o NOCHANGE =>
                      result.ipv4 = None /\ result.ipv6 = None

\* an accepted response whose second and third line both read NOCHANGE gave
\* a successful result without addresses
C11_Witness ==
    \E t \in Requested :
        /\ Accepted(t)
        /\ Len(BodyLines(t)) = 3
        /\ BodyLines(t)[2] = NOCHANGE
        /\ BodyLines(t)[3] = NOCHANGE
        /\ threads[t].emitted[1].success
        /\ threads[t].emitted[1].ipv4 = None
        /\ threads[t].emitted[1].ipv6 = None

\* C12: every result with success = false has neither ipv4 nor ipv6, on
\* each failure path: a network fault (whose message embeds the fault's
\* description), a status other than 200, a malformed body, and an
\* unexpected exception caught in run().
C12_FailuresCarryNoAddress ==
    \A t \in Finished :
        /\ \A i \in 1..Len(threads[t].emitted) :
              ~threads[t].emitted[i].success =>
                  /\ threads[t].emitted[i].ipv4 = None
                  /\ threads[t].emitted[i].ipv6 = None
        /\ FailurePath(t) =>
              /\ ~threads[t].emitted[1].success
              /\ threads[t].emitted[1].ipv4 = None
              /\ threads[t].emitted[1].ipv6 = None
        /\ (t \in Requested /\ threads[t].provider[1].exc # None) =>
              Embeds(threads[t].emitted[1].message, threads[t].provider[1].exc[1])
        /\ threads[t].unexpected # None =>
              Embeds(threads[t].emitted[1].message, threads[t].unexpected[1])

\* a request the provider answered with a status other than 200 and a
\* non-empty body ended in a failure result without addresses
C12_Witness ==
    \E t \in Requested :
        /\ threads[t].provider[1].exc = None
        /\ threads[t].provider[1].status_code # 200
        /\ threads[t].provider[1].text # <<>>
        /\ ~threads[t].emitted[1].success
        /\ threads[t].emitted[1].ipv4 = None
        /\ threads[t].emitted[1].ipv6 = None

\* discovery as it is specified, from the i-th service on: the trimmed body
\* of the first service that answers 200 with a non-empty body, every
\* other service being skipped, and nothing when no service is left
RECURSIVE FirstNonEmptyAnswer(_, _)
FirstNonEmptyAnswer(echo, i) ==
    IF i > Len(echo)
    THEN [ip |-> None, queried |-> i - 1]
    ELSE IF /\ echo[i].exc = None
            /\ echo[i].status_code = 200
            /\ strip(echo[i].text) # <<>>
         THEN [ip |-> Some(strip(echo[i].text)), queried |-> i]
         ELSE FirstNonEmptyAnswer(echo, i + 1)

\* the threads that looked their IPv4 address up
Discovering ==
    {t \in Requested : threads[t].update_ipv4 /\ ~Truthy(threads[t].ipv4)}

\* C15: get_ipv4 and get_ipv6 query their services in order, one at a
\* time, and return the trimmed body of the first service that answers
\* successfully with a non-empty body; a service that fails, times out,
\* answers with another status or with an empty body is skipped, and no
\* service is queried after the one whose value is returned.
C15_FirstNonEmptyService ==
    \A t \in Finished :
        threads[t].echo # None =>
            /\ get_ipv4(threads[t].echo[1].v4) = FirstNonEmptyAnswer(threads[t].echo[1].v4, 1)
            /\ get_ipv6(threads[t].echo[1].v6) = FirstNonEmptyAnswer(threads[t].echo[1].v6, 1)
            /\ t \in Discovering =>
                  threads[t].ipv4_queries =
                      FirstNonEmptyAnswer(threads[t].echo[1].v4, 1).queried

\* every IPv4 echo service failed for thread t: a fault, a timeout, or a
\* status other than 200
DiscoveryFailed(t) ==
    \A i \in 1..Len(IPV4_SERVICES) :
        \/ threads[t].echo[1].v4[i].exc # None
        \/ threads[t].echo[1].v4[i].status_code # 200

\* C16: when every IPv4 echo service fails or times out, get_ipv4 returns
\* nothing and raises nothing, and an attempt that is to update IPv4 and
\* has no override still sends its request to the provider, without ip, and
\* ends with the result the provider's response determines.
C16_DiscoveryFailureStillUpdates ==
    \A t \in Finished :
        (/\ threads[t].unexpected = None
         /\ threads[t].update_ipv4
         /\ ~Truthy(threads[t].ipv4)
         /\ DiscoveryFailed(t)) =>
            /\ get_ipv4(threads[t].echo[1].v4).ip = None
            /\ threads[t].ipv4_queries = Len(IPV4_SERVICES)
            /\ ~threads[t].escaped
            /\ threads[t].params # None
            /\ "ip" \notin DOMAIN threads[t].params[1]
            /\ threads[t].params[1].domains = threads[t].domains
            /\ Len(threads[t].emitted) = 1
            /\ threads[t].emitted[1].success <=> Accepted(t)
            /\ Accepted(t) =>
                  threads[t].emitted[1].ipv4 = ReportedLine(BodyLines(t), 2)

\* all three echo services failed, the request went out without ip, and
\* the provider's answer made the attempt a success that reports the
\* address the provider saw
C16_Witness ==
    \E t \in Requested :
        /\ threads[t].unexpected = None
        /\ threads[t].update_ipv4
        /\ threads[t].ipv4 = None
        /\ DiscoveryFailed(t)
        /\ threads[t].ipv4_queries = 3
        /\ "ip" \notin DOMAIN threads[t].params[1]
        /\ threads[t].emitted[1].success
        /\ threads[t].emitted[1].ipv4 = Some(IP4)

\* the eleven fields of the settings
SettingsFields ==
    {"domains", "token", "update_ipv4", "use_custom_ipv4", "custom_ipv4",
     "update_ipv6", "custom_ipv6", "auto_update", "update_interval",
     "minimize_to_tray", "start_minimized"}

\* the documented default of each field
DocumentedDefault(field) ==
    CASE field \in {"domains", "token", "custom_ipv4", "custom_ipv6"} -> <<>>
      [] field \in {"update_ipv4", "minimize_to_tray"} -> TRUE
      [] field = "update_interval" -> 30
      [] OTHER -> FALSE

\* d holds field with its documented default
HoldsDefault(d, field) == field \in DOMAIN d /\ d[field] = DocumentedDefault(field)

\* nothing was saved yet: config is what start-up loaded from config_file
AsLoaded == saves = 0

\* C13: load_config on a missing or an unparsable file returns the default
\* document with all eleven fields, and raises nothing.
C13_DefaultsWhenUnreadable ==
    (AsLoaded /\ (~config_file.exists \/ ~config_file.parsable)) =>
        /\ DOMAIN config = SettingsFields
        /\ \A field \in SettingsFields : HoldsDefault(config, field)

\* start-up found a file that holds no JSON document and runs on the
\* defaults
C13_Witness ==
    /\ AsLoaded
    /\ config_file.exists
    /\ ~config_file.parsable
    /\ DOMAIN config = SettingsFields
    /\ config.update_interval = 30
    /\ ~config.auto_update

\* C14: the document load_config returns is always fully populated: for
\* every persisted document, a parsable one that lacks fields included,
\* each missing field is present in the loaded document with its
\* documented default.
C14_LoadedDocumentFullyPopulated ==
    AsLoaded =>
        /\ SettingsFields \subseteq DOMAIN config
        /\ \A field \in SettingsFields :
              (config_file.exists /\ config_file.parsable
                   /\ field \in DOMAIN config_file.data)
              \/ HoldsDefault(config, field)

\* C19: whenever a periodic timer is running, its period is the
\* update_interval of the current settings, in minutes, and that interval
\* lies in 5..1440, whether the settings come from a save or from the
\* document loaded at start-up.
C19_TimerPeriodInRange ==
    \A i \in ActiveTimers :
        LET minutes == Get(config, "update_interval", 30)
        IN  /\ timers[i].interval = minutes * 60 * 1000
            /\ minutes >= 5
            /\ minutes <= 1440

\* the signals of thread t that wait in the queue of the main thread
Queued(t) == {i \in 1..Len(events) : events[i].thread = t}

\* C17: every started attempt produces exactly one update result and has
\* on_update_complete invoked exactly once, never zero times and never
\* twice, on the success path and on every failure path; every started
\* attempt eventually reaches that callback.
C17_ExactlyOneCallback ==
    /\ [](\A t \in 1..Len(threads) :
            /\ threads[t].state = "finished" => Len(threads[t].emitted) = 1
            /\ threads[t].callbacks + Cardinality(Queued(t)) = Len(threads[t].emitted)
            /\ threads[t].callbacks <= 1)
    /\ \A t \in 1..MaxThreads :
          (Len(threads) >= t) ~> (Len(threads) >= t /\ threads[t].callbacks = 1)

\* C18: a fault while the settings are written is captured and surfaced:
\* ConfigManager.save_config returns false instead of raising, and the
\* save action of the configuration tab observes that failure instead of
\* reporting the save as successful.
C18_SaveFailureObserved ==
    /\ (saves > 0 /\ config_saved) => load_config(config_file) = config
    /\ (saves > 0 /\ ~config_saved) => dialog # "Configuration Saved"

\* a trigger started a thread
Started == Len(threads') = Len(threads) + 1

\* the override the settings call for: the custom IPv4 address when
\* use_custom_ipv4 is set and the address is not empty, otherwise none
CustomOverride(cfg) ==
    IF Get(cfg, "use_custom_ipv4", FALSE) /\ Get(cfg, "custom_ipv4", <<>>) # <<>>
    THEN Some(cfg.custom_ipv4) ELSE None

\* C20: the custom IPv4 address is handed to an attempt as its override
\* only when use_custom_ipv4 is set and custom_ipv4 is not empty; otherwise
\* the attempt has no override, so a stored custom_ipv4 with
\* use_custom_ipv4 off never reaches the request to the provider, and
\* discovery is used instead.
C20_CustomIpv4OnlyWhenEnabled ==
    /\ [][Started => threads'[Len(threads')].ipv4 = CustomOverride(config)]_vars
    /\ [](\A t \in Requested :
            (threads[t].update_ipv4 /\ threads[t].ipv4 = None) =>
                /\ threads[t].ipv4_queries >= 1
                /\ "ip" \in DOMAIN threads[t].params[1] =>
                      Some(threads[t].params[1].ip) = get_ipv4(threads[t].echo[1].v4).ip)

\* the settings hold a custom address with use_custom_ipv4 off, and the
\* attempt started from them looked its address up and sent that one
C20_Witness ==
    /\ saves = 0
    /\ ~Get(config, "use_custom_ipv4", FALSE)
    /\ Get(config, "custom_ipv4", <<>>) = CUSTOM4
    /\ \E t \in Requested :
          /\ threads[t].update_ipv4
          /\ threads[t].ipv4 = None
          /\ threads[t].ipv4_queries = 1
          /\ threads[t].params[1].ip = IP4

\* a trigger fires: the button, the tray menu, the timer or the single
\* shot of start-up
Trigger == UpdateNowButton \/ TrayUpdateNow \/ TimerTimeout \/ StartupSingleShot

\* the current settings have no domains or no token
SettingsIncomplete ==
    Get(config, "domains", <<>>) = <<>> \/ Get(config, "token", <<>>) = <<>>

\* C21: a trigger (manual, periodic or at start-up) that finds the current
\* settings with empty domains or an empty token starts no update attempt,
\* issues no discovery or provider request, and leaves the history in
\* memory and the persisted history as they were.
C21_IncompleteSettingsStartNothing ==
    /\ [][(Trigger /\ SettingsIncomplete) =>
            /\ threads' = threads
            /\ events' = events
            /\ update_history' = update_history
            /\ history_file' = history_file]_vars
    /\ [](\A t \in 1..Len(threads) :
            threads[t].domains # <<>> /\ threads[t].token # <<>>)

\* start-up loaded settings with auto_update on and no domains, the single
\* shot fired, and nothing was started
C21_Witness ==
    /\ saves = 0
    /\ Get(config, "auto_update", FALSE)
    /\ SettingsIncomplete
    /\ ~single_shot
    /\ dialog = "Configuration Missing"
    /\ threads = <<>>
    /\ events = <<>>

\* the values a thread was constructed with
Captured(thread) ==
    [domains |-> thread.domains, token |-> thread.token,
     update_ipv4 |-> thread.update_ipv4, update_ipv6 |-> thread.update_ipv6,
     ipv4 |-> thread.ipv4, ipv6 |-> thread.ipv6]

\* the values the settings cfg call for in an attempt
FromSettings(cfg) ==
    [domains |-> Get(cfg, "domains", <<>>), token |-> Get(cfg, "token", <<>>),
     update_ipv4 |-> Get(cfg, "update_ipv4", TRUE),
     update_ipv6 |-> Get(cfg, "update_ipv6", FALSE),
     ipv4 |-> CustomOverride(cfg),
     ipv6 |-> IF Get(cfg, "update_ipv6", FALSE) /\ Get(cfg, "custom_ipv6", <<>>) # <<>>
              THEN Some(cfg.custom_ipv6) ELSE None]

\* the request of thread t was made from the values the thread was
\* constructed with
RequestFromCaptured(t) ==
    LET p == threads[t].params[1]
        c == threads[t]
    IN  /\ p.domains = c.domains
        /\ p.token = c.token
        /\ "ip" \in DOMAIN p =>
              /\ c.update_ipv4
              /\ Some(p.ip) = IF Truthy(c.ipv4) THEN c.ipv4
                              ELSE get_ipv4(c.echo[1].v4).ip
        /\ (c.update_ipv4 /\ Truthy(c.ipv4)) => "ip" \in DOMAIN p
        /\ "ipv6" \in DOMAIN p <=> (c.update_ipv6 /\ Truthy(c.ipv6))
        /\ "ipv6" \in DOMAIN p => p.ipv6 = c.ipv6[1]

\* C22: an attempt uses the domains, token, update flags and overrides
\* taken from the settings at the moment it was triggered; a configuration
\* save made while the attempt is in flight changes neither the parameters
\* of its request nor its result, and only affects the attempts triggered
\* after the save.
C22_SettingsCapturedAtTrigger ==
    /\ [][Started => Captured(threads'[Len(threads')]) = FromSettings(config)]_vars
    /\ [][\A t \in 1..Len(threads) :
            /\ Captured(threads'[t]) = Captured(threads[t])
            /\ threads[t].state = "finished" =>
                  /\ threads'[t].params = threads[t].params
                  /\ threads'[t].emitted = threads[t].emitted]_vars
    /\ [][saves' # saves => threads' = threads /\ events' = events]_vars
    /\ [](\A t \in Requested :
            /\ RequestFromCaptured(t)
            /\ threads[t].emitted[1].success <=> Accepted(t))

\* an attempt started before a save and run after it sent the address it
\* looked up, although the saved settings call for the custom address, and
\* an attempt started after the save has the saved values
C22_Witness ==
    \E t \in Requested, u \in 1..Len(threads) :
        /\ threads[t].saves_before_start = 0
        /\ threads[t].saves_before_run = 1
        /\ Captured(threads[t]) # FromSettings(config)
        /\ threads[t].ipv4 = None
        /\ CustomOverride(config) = Some(CUSTOM4)
        /\ threads[t].params[1].ip = IP4
        /\ threads[t].emitted[1].success
        /\ threads[u].saves_before_start = 1
        /\ Captured(threads[u]) = FromSettings(config)

\* the last k entries of history, in their order
LastEntries(history, k) == [i \in 1..k |-> history[Len(history) - k + i]]

\* the smaller of a and b
Min(a, b) == IF a <= b THEN a ELSE b

\* C23: after completed attempts and history clears whose saves succeed,
\* the persisted history is the last min(n, 1000) entries of the history
\* in memory, of length n, in the same order; each completed attempt adds
\* exactly one entry at the end and leaves the earlier entries as they
\* were, and a confirmed clear leaves the history in memory and the
\* persisted history empty.
C23_PersistedIsTailOfHistory ==
    /\ [](history_saved =>
            load_history(history_file) =
                LastEntries(update_history, Min(Len(update_history), 1000)))
    /\ [][Delivery =>
            /\ Len(update_history') = Len(update_history) + 1
            /\ update_history'[Len(update_history')] = Head(events).result
            /\ \A i \in 1..Len(update_history) : update_history'[i] = update_history[i]]_vars
    /\ [][\E reply \in {"Yes"}, io \in {"ok"} : clear_history(reply, io) =>
            /\ update_history' = <<>>
            /\ history_saved'
            /\ load_history(history_file') = <<>>]_vars

\* the history in memory holds 1001 entries, the save succeeded, and the
\* file holds the entries from the second to the last
C23_Witness ==
    /\ history_saved
    /\ Len(update_history) = 1001
    /\ Len(load_history(history_file)) = 1000
    /\ load_history(history_file)[1] = update_history[2]
    /\ load_history(history_file)[1000] = update_history[1001]
    /\ \E t \in Finished : update_history[1001] = threads[t].emitted[1]

====
